---- MODULE Spec2Model ----
(***************************************************************************)
(* BananaTalk signaling / matchmaking relay (Go backend).                  *)
(*                                                                         *)
(* The model follows the newest backend source, src/unnamed/part_000       *)
(* lines 274-591: one handler goroutine per connection                     *)
(* (handleConnections), one heartbeat goroutine per connection, and the    *)
(* single MatchMaker.Run goroutine.  Every access to shared state (the     *)
(* clients map under clientsMu, MatchMaker.queue under m.mu, the notify    *)
(* channel, a Client's mu and its connection) is one atomic step; purely   *)
(* local statements are folded into the shared step that follows them.     *)
(***************************************************************************)
EXTENDS Naturals, Sequences, FiniteSets

\* ------------------------------------------------------------------ bounds
MaxConns == 4          \* connection requests in the wake specification
PoolConns == 3         \* connection requests in the pool specifications
RelayConns == 2        \* connection requests in the relay specification
WatchedConns == 1      \* connections whose peer, clock and ticker misbehave
MaxFrames == 2         \* inbound frames the read loops decode in one run
RelayFrames == 1       \* the same in the specifications that also run the loop
PongTicks == 2         \* clock ticks that make up the pongWait window

\* ------------------------------------------------------------- input sets
Conns == 1..MaxConns
Pool == 1..PoolConns
Relay == 1..RelayConns
Watched == 1..WatchedConns
NoClient == 0          \* nil *Client / absent map entry
NoId == ""             \* the empty string
IDs == {"a", "b", "c"} \* subjects the identity provider can vouch for
Payloads == {"sdp"}    \* opaque negotiation payloads
MsgTypes == {"offer", "bye"}
\* credentials: one valid token per subject, a valid token without subject,
\* and a token the verifier refuses
Tokens == {"tok-a", "tok-b", "tok-c", "tok-nosub", "tok-bad"}
\* the valid tokens a connection request may carry: request 1 comes from
\* subject a, request 2 from a second device of a or from b, request 3 from c,
\* any further request from b
OwnTokens(c) ==
    IF c = 1 THEN {"tok-a"}
    ELSE IF c = 2 THEN {"tok-a", "tok-b"}
    ELSE IF c = 3 THEN {"tok-c"}
    ELSE {"tok-b"}
Queries(c) == {"", "tok-nosub", "tok-bad"} \cup OwnTokens(c)
NoHeader == [scheme |-> "", cred |-> ""]
Headers(c) == {NoHeader} \cup [scheme : {"Bearer", "Basic"}, cred : OwnTokens(c) \cup {"tok-bad"}]

VARIABLES
    pc,       \* [Conns -> position of the connection's handler goroutine]
    cid,      \* [Conns -> Client.ID of the connection's Client record]
    clients,  \* the clients map: [IDs -> Conns \cup {NoClient}]
    queue,    \* MatchMaker.queue: sequence of Client records
    notify,   \* number of wakes buffered in MatchMaker.notify (capacity 1)
    mmpc,     \* position of MatchMaker.Run
    c1, c2,   \* locals of MatchMaker.Run
    cmu,      \* [Conns -> BOOLEAN] Client.mu is held
    rmsg,     \* [Conns -> the Message handleMessage is forwarding, or NoMsg]
    rtarget,  \* [Conns -> target found by handleMessage, or NoClient]
    hb,       \* [Conns -> position of the heartbeat goroutine]
    net,      \* [Conns -> "up" | "down"] whether the remote peer still answers
    rdl,      \* [Conns -> ticks left until the connection's read deadline]
    nread,    \* frames decoded so far by all read loops
    sent,     \* [Conns -> sequence of frames written to the connection]
    clientsMu, \* goroutine inside a clientsMu critical section, or Unlocked
    mmu       \* goroutine inside an m.mu critical section, or Unlocked

vars == <<pc, cid, clients, queue, notify, mmpc, c1, c2, cmu, rmsg, rtarget,
          hb, net, rdl, nread, sent, clientsMu, mmu>>

\* no goroutine is inside the critical section
Unlocked == MaxConns + 1

NoMsg == [type |-> "", payload |-> "", to |-> NoId, from |-> NoId]

\* ------------------------------------------------------------ pure helpers

\* idtoken.Validate followed by payload.Subject
Validate(token) ==
    CASE token = "tok-a" -> [ok |-> TRUE, sub |-> "a"]
      [] token = "tok-b" -> [ok |-> TRUE, sub |-> "b"]
      [] token = "tok-c" -> [ok |-> TRUE, sub |-> "c"]
      [] token = "tok-nosub" -> [ok |-> TRUE, sub |-> NoId]
      [] OTHER -> [ok |-> FALSE, sub |-> NoId]

\* faulty variant of ExtractToken: the Bearer header is preferred to the query
ExtractTokenHeaderFirst(query, header) ==
    IF header.scheme = "Bearer" /\ header.cred # "" THEN header.cred
    ELSE query

\* the credential handleConnections uses: the query parameter, else the
\* Authorization header when it starts with "Bearer "
ExtractToken(query, header) ==
    IF query # "" THEN query
    ELSE IF header.scheme = "Bearer" THEN header.cred
    ELSE ""

\* faulty variant of Authenticate: the empty subject is not checked
AuthenticateAnySubject(query, header) ==
    LET token == ExtractToken(query, header)
        v == Validate(token)
    IN  IF token = "" THEN [status |-> 401, sub |-> NoId]
        ELSE IF ~v.ok THEN [status |-> 401, sub |-> NoId]
        ELSE [status |-> 101, sub |-> v.sub]

\* the HTTP status handleConnections answers with before any upgrade, and the
\* subject it would go on with
Authenticate(query, header) ==
    LET token == ExtractToken(query, header)
        v == Validate(token)
    IN  IF token = "" THEN [status |-> 401, sub |-> NoId]
        ELSE IF ~v.ok THEN [status |-> 401, sub |-> NoId]
        ELSE IF v.sub = NoId THEN [status |-> 401, sub |-> NoId]
        ELSE [status |-> 101, sub |-> v.sub]

\* faulty variants of Stamp: the client-supplied From is kept; the message is
\* rebuilt without its payload
StampTrust(msg, id) == msg
StampNoPayload(msg, id) == [msg EXCEPT !.from = id, !.payload = ""]

\* msg.From = clientID
Stamp(msg, id) == [msg EXCEPT !.from = id]

\* faulty variant of Lookup: only a Client that was sent a match is found
LookupPaired(to) ==
    IF to \in IDs /\ clients[to] # NoClient
       /\ \E i \in DOMAIN sent[clients[to]] : sent[clients[to]][i].via = "match"
    THEN clients[to] ELSE NoClient

\* clients[msg.To] (target, ok) -- NoClient stands for ok = false
Lookup(to) == IF to \in IDs THEN clients[to] ELSE NoClient

\* faulty variant of Routable: the ok of the map lookup is not tested
RoutableUnchecked(to, target) == to # NoId

\* handleMessage forwards only when To is set and the lookup succeeded
Routable(to, target) == to # NoId /\ target # NoClient

\* the select { case m.notify <- struct{}{}: default: } of Add and Run
PostWake(n) == IF n < 1 THEN n + 1 ELSE n

\* index of the first queue entry whose ID equals id, 0 when there is none
RECURSIVE FirstWithId(_, _, _)
FirstWithId(q, id, i) ==
    IF i > Len(q) THEN 0
    ELSE IF cid[q[i]] = id THEN i
    ELSE FirstWithId(q, id, i + 1)

\* faulty variant of RemoveFromQueue: every entry with the ID of c is deleted
RECURSIVE RemoveAllWithId(_, _)
RemoveAllWithId(q, c) ==
    IF q = <<>> THEN <<>>
    ELSE IF cid[Head(q)] = cid[c] THEN RemoveAllWithId(Tail(q), c)
    ELSE <<Head(q)>> \o RemoveAllWithId(Tail(q), c)

\* MatchMaker.Remove: delete the first entry with the same ID as c
RemoveFromQueue(q, c) ==
    LET i == FirstWithId(q, cid[c], 1)
    IN  IF i = 0 THEN q
        ELSE SubSeq(q, 1, i - 1) \o SubSeq(q, i + 1, Len(q))

\* faulty variant of CanLock: the connection is written without the mutex
CanLockAlways(c) == TRUE

\* c.mu.Lock() succeeds only while nobody holds the mutex
CanLock(c) == ~cmu[c]

\* a write on the connection succeeds while the peer answers and the
\* connection has not been closed by its handler
WriteOk(c) == net[c] = "up" /\ pc[c] # "closed"

\* one write on a connection as the trace records it: the JSON object, whether
\* the write returned nil (ok), the statement that wrote it (via) and the
\* goroutine (by: the handler's connection, MM for MatchMaker.Run)
MM == 0
Frame(m, ok, via, by) == [type |-> m.type, payload |-> m.payload, to |-> m.to,
                          from |-> m.from, ok |-> ok, via |-> via, by |-> by]

\* faulty variant of MatchMsg: the payload is the receiver's own ID
MatchMsgSelf(self, peer) == [type |-> "match", payload |-> cid[self], to |-> NoId, from |-> NoId]

\* the match notification Run sends to self about peer
MatchMsg(self, peer) == [type |-> "match", payload |-> cid[peer], to |-> NoId, from |-> NoId]

\* faulty variant of Enqueue: the client is appended twice
EnqueueTwice(q, c) == Append(Append(q, c), c)

\* m.queue = append(m.queue, c)
Enqueue(q, c) == Append(q, c)

\* faulty variant of InitMsg: the init message does not carry the identity
InitMsgAnon(c) == [type |-> "init", payload |-> NoId, to |-> NoId, from |-> NoId]

InitMsg(c) == [type |-> "init", payload |-> cid[c], to |-> NoId, from |-> NoId]

\* -------------------------------------------------------------------- Init
Init ==
    /\ pc = [c \in Conns |-> "idle"]
    /\ cid = [c \in Conns |-> NoId]
    /\ clients = [i \in IDs |-> NoClient]
    /\ queue = <<>>
    /\ notify = 0
    /\ mmpc = "wait"
    /\ c1 = NoClient
    /\ c2 = NoClient
    /\ cmu = [c \in Conns |-> FALSE]
    /\ rmsg = [c \in Conns |-> NoMsg]
    /\ rtarget = [c \in Conns |-> NoClient]
    /\ hb = [c \in Conns |-> "off"]
    /\ net = [c \in Conns |-> "up"]
    /\ rdl = [c \in Conns |-> PongTicks]
    /\ nread = 0
    /\ sent = [c \in Conns |-> <<>>]
    /\ clientsMu = Unlocked
    /\ mmu = Unlocked

\* --------------------------------------------------- connection handler
\* faulty variant of Connect: the Client is enrolled as soon as it is registered
ConnectEnrolling(c, query, header, upgraded) ==
    /\ pc[c] = "idle"
    /\ LET a == Authenticate(query, header)
       IN  IF a.status = 401
           THEN /\ pc' = [pc EXCEPT ![c] = "rejected"]
                /\ UNCHANGED <<cid, clients, queue, notify>>
           ELSE IF ~upgraded
           THEN /\ pc' = [pc EXCEPT ![c] = "failed"]
                /\ UNCHANGED <<cid, clients, queue, notify>>
           ELSE /\ pc' = [pc EXCEPT ![c] = "init"]
                /\ cid' = [cid EXCEPT ![c] = a.sub]
                /\ clients' = [clients EXCEPT ![a.sub] = c]
                /\ queue' = Append(queue, c)
                /\ notify' = PostWake(notify)
    /\ UNCHANGED <<clientsMu, mmu, mmpc, c1, c2, cmu, rmsg, rtarget, hb, net, rdl, nread, sent>>

\* handleConnections up to the registration of the Client (lines 449-499)
Connect(c, query, header, upgraded) ==
    /\ pc[c] = "idle"
    /\ LET a == Authenticate(query, header)
       IN  IF a.status = 401
           THEN /\ pc' = [pc EXCEPT ![c] = "rejected"]
                /\ UNCHANGED <<cid, clients>>
           ELSE IF ~upgraded
           THEN /\ pc' = [pc EXCEPT ![c] = "failed"]
                /\ UNCHANGED <<cid, clients>>
           ELSE /\ pc' = [pc EXCEPT ![c] = "init"]
                /\ cid' = [cid EXCEPT ![c] = a.sub]
                /\ clients' = [clients EXCEPT ![a.sub] = c]
    /\ UNCHANGED <<clientsMu, mmu, queue, notify, mmpc, c1, c2, cmu, rmsg, rtarget, hb, net, rdl, nread, sent>>

\* client.WriteJSON(init): c.mu.Lock()
InitLock(c) ==
    /\ pc[c] = "init"
    /\ CanLock(c)
    /\ cmu' = [cmu EXCEPT ![c] = TRUE]
    /\ pc' = [pc EXCEPT ![c] = "initw"]
    /\ UNCHANGED <<clientsMu, mmu, cid, clients, queue, notify, mmpc, c1, c2, rmsg, rtarget, hb, net, rdl, nread, sent>>

\* client.WriteJSON(init): the write and the deferred unlock; the error is ignored
InitWrite(c) ==
    /\ pc[c] = "initw"
    /\ sent' = [sent EXCEPT ![c] = Append(@, Frame(InitMsg(c), WriteOk(c), "init", c))]
    /\ cmu' = [cmu EXCEPT ![c] = FALSE]
    /\ pc' = [pc EXCEPT ![c] = "add"]
    /\ UNCHANGED <<clientsMu, mmu, cid, clients, queue, notify, mmpc, c1, c2, rmsg, rtarget, hb, net, rdl, nread>>

\* MatchMaker.Add: the append under m.mu
AddAppend(c) ==
    /\ pc[c] = "add"
    /\ queue' = Enqueue(queue, c)
    /\ pc' = [pc EXCEPT ![c] = "notify"]
    /\ UNCHANGED <<clientsMu, mmu, cid, clients, notify, mmpc, c1, c2, cmu, rmsg, rtarget, hb, net, rdl, nread, sent>>

\* faulty variant of AddNotify: a blocking send on notify
AddNotifyBlocking(c) ==
    /\ pc[c] = "notify"
    /\ notify < 1
    /\ notify' = notify + 1
    /\ hb' = [hb EXCEPT ![c] = "wait"]
    /\ rdl' = [rdl EXCEPT ![c] = PongTicks]
    /\ pc' = [pc EXCEPT ![c] = "read"]
    /\ UNCHANGED <<clientsMu, mmu, cid, clients, queue, mmpc, c1, c2, cmu, rmsg, rtarget, net, nread, sent>>

\* MatchMaker.Add: the non-blocking send on notify; then the handler starts
\* the heartbeat goroutine and arms the read deadline
AddNotify(c) ==
    /\ pc[c] = "notify"
    /\ notify' = PostWake(notify)
    /\ hb' = [hb EXCEPT ![c] = "wait"]
    /\ rdl' = [rdl EXCEPT ![c] = PongTicks]
    /\ pc' = [pc EXCEPT ![c] = "read"]
    /\ UNCHANGED <<clientsMu, mmu, cid, clients, queue, mmpc, c1, c2, cmu, rmsg, rtarget, net, nread, sent>>

\* faulty variant of Recv: a bye frame is stamped but not handed to handleMessage
RecvSkipBye(c, msg) ==
    /\ pc[c] = "read"
    /\ net[c] = "up"
    /\ rdl[c] > 0
    /\ nread < MaxFrames
    /\ nread' = nread + 1
    /\ LET m == Stamp(msg, cid[c])
           target == Lookup(m.to)
       IN  IF m.type = "bye" \/ ~Routable(m.to, target)
           THEN UNCHANGED <<pc, rmsg, rtarget>>
           ELSE /\ pc' = [pc EXCEPT ![c] = "rlock"]
                /\ rmsg' = [rmsg EXCEPT ![c] = m]
                /\ rtarget' = [rtarget EXCEPT ![c] = target]
    /\ UNCHANGED <<clientsMu, mmu, cid, clients, queue, notify, mmpc, c1, c2, cmu, hb, net, rdl, sent>>

\* one iteration of the read loop whose ReadJSON succeeds: stamp From, then
\* handleMessage up to the registry lookup
Recv(c, msg) ==
    /\ pc[c] = "read"
    /\ net[c] = "up"
    /\ rdl[c] > 0
    /\ nread < MaxFrames
    /\ nread' = nread + 1
    /\ LET m == Stamp(msg, cid[c])
           target == Lookup(m.to)
       IN  IF ~Routable(m.to, target)
           THEN UNCHANGED <<pc, rmsg, rtarget>>
           ELSE /\ pc' = [pc EXCEPT ![c] = "rlock"]
                /\ rmsg' = [rmsg EXCEPT ![c] = m]
                /\ rtarget' = [rtarget EXCEPT ![c] = target]
    /\ UNCHANGED <<clientsMu, mmu, cid, clients, queue, notify, mmpc, c1, c2, cmu, hb, net, rdl, sent>>

\* target.WriteJSON(msg): c.mu.Lock() of the target
RouteLock(c) ==
    /\ pc[c] = "rlock"
    /\ CanLock(rtarget[c])
    /\ cmu' = [cmu EXCEPT ![rtarget[c]] = TRUE]
    /\ pc' = [pc EXCEPT ![c] = "rwrite"]
    /\ UNCHANGED <<clientsMu, mmu, cid, clients, queue, notify, mmpc, c1, c2, rmsg, rtarget, hb, net, rdl, nread, sent>>

\* faulty variant of RouteWrite: the frame overtakes what was written before
RouteWritePrepend(c) ==
    /\ pc[c] = "rwrite"
    /\ sent' = [sent EXCEPT ![rtarget[c]] = <<Frame(rmsg[c], WriteOk(rtarget[c]), "route", c)>> \o @]
    /\ cmu' = [cmu EXCEPT ![rtarget[c]] = FALSE]
    /\ pc' = [pc EXCEPT ![c] = "read"]
    /\ rmsg' = [rmsg EXCEPT ![c] = NoMsg]
    /\ rtarget' = [rtarget EXCEPT ![c] = NoClient]
    /\ UNCHANGED <<clientsMu, mmu, cid, clients, queue, notify, mmpc, c1, c2, hb, net, rdl, nread>>

\* faulty variant of RouteWrite: a failed write ends the sender's read loop
RouteWriteFatal(c) ==
    /\ pc[c] = "rwrite"
    /\ sent' = [sent EXCEPT ![rtarget[c]] = Append(@, Frame(rmsg[c], WriteOk(rtarget[c]), "route", c))]
    /\ cmu' = [cmu EXCEPT ![rtarget[c]] = FALSE]
    /\ pc' = [pc EXCEPT ![c] = IF WriteOk(rtarget[c]) THEN "read" ELSE "remove"]
    /\ rmsg' = [rmsg EXCEPT ![c] = NoMsg]
    /\ rtarget' = [rtarget EXCEPT ![c] = NoClient]
    /\ UNCHANGED <<clientsMu, mmu, cid, clients, queue, notify, mmpc, c1, c2, hb, net, rdl, nread>>

\* target.WriteJSON(msg): the write and the unlock; an error is only logged
RouteWrite(c) ==
    /\ pc[c] = "rwrite"
    /\ sent' = [sent EXCEPT ![rtarget[c]] = Append(@, Frame(rmsg[c], WriteOk(rtarget[c]), "route", c))]
    /\ cmu' = [cmu EXCEPT ![rtarget[c]] = FALSE]
    /\ pc' = [pc EXCEPT ![c] = "read"]
    /\ rmsg' = [rmsg EXCEPT ![c] = NoMsg]
    /\ rtarget' = [rtarget EXCEPT ![c] = NoClient]
    /\ UNCHANGED <<clientsMu, mmu, cid, clients, queue, notify, mmpc, c1, c2, hb, net, rdl, nread>>

\* the pong handler, run inside ReadJSON: refresh the read deadline
Pong(c) ==
    /\ pc[c] = "read"
    /\ net[c] = "up"
    /\ rdl[c] > 0
    /\ rdl' = [rdl EXCEPT ![c] = PongTicks]
    /\ UNCHANGED <<clientsMu, mmu, pc, cid, clients, queue, notify, mmpc, c1, c2, cmu, rmsg, rtarget, hb, net, nread, sent>>

\* faulty variant of ReadFail: the cleanup skips matchMaker.Remove
ReadFailNoRemove(c) ==
    /\ pc[c] = "read"
    /\ clients' = [clients EXCEPT ![cid[c]] = NoClient]
    /\ pc' = [pc EXCEPT ![c] = "close"]
    /\ UNCHANGED <<clientsMu, mmu, cid, queue, notify, mmpc, c1, c2, cmu, rmsg, rtarget, hb, net, rdl, nread, sent>>

\* ReadJSON returns an error (close, malformed or oversized frame, network
\* error, read deadline passed): break, and the deferred cleanup deletes the
\* registry entry under clientsMu
ReadFail(c) ==
    /\ pc[c] = "read"
    /\ clients' = [clients EXCEPT ![cid[c]] = NoClient]
    /\ pc' = [pc EXCEPT ![c] = "remove"]
    /\ UNCHANGED <<clientsMu, mmu, cid, queue, notify, mmpc, c1, c2, cmu, rmsg, rtarget, hb, net, rdl, nread, sent>>

\* faulty variant of TdRemove: a Remove that deleted an entry posts a wake
TdRemovePosting(c) ==
    /\ pc[c] = "remove"
    /\ queue' = RemoveFromQueue(queue, c)
    /\ notify' = IF queue' # queue THEN PostWake(notify) ELSE notify
    /\ pc' = [pc EXCEPT ![c] = "close"]
    /\ UNCHANGED <<clientsMu, mmu, cid, clients, mmpc, c1, c2, cmu, rmsg, rtarget, hb, net, rdl, nread, sent>>

\* deferred cleanup: matchMaker.Remove(client)
TdRemove(c) ==
    /\ pc[c] = "remove"
    /\ queue' = RemoveFromQueue(queue, c)
    /\ pc' = [pc EXCEPT ![c] = "close"]
    /\ UNCHANGED <<clientsMu, mmu, cid, clients, notify, mmpc, c1, c2, cmu, rmsg, rtarget, hb, net, rdl, nread, sent>>

\* deferred conn.Close()
TdClose(c) ==
    /\ pc[c] = "close"
    /\ pc' = [pc EXCEPT ![c] = "closed"]
    /\ UNCHANGED <<clientsMu, mmu, cid, clients, queue, notify, mmpc, c1, c2, cmu, rmsg, rtarget, hb, net, rdl, nread, sent>>

\* ------------------------------------------------------------- heartbeat
\* ticker fires: client.WriteControl(Ping) takes c.mu
PingLock(c) ==
    /\ hb[c] = "wait"
    /\ CanLock(c)
    /\ cmu' = [cmu EXCEPT ![c] = TRUE]
    /\ hb' = [hb EXCEPT ![c] = "ping"]
    /\ UNCHANGED <<clientsMu, mmu, pc, cid, clients, queue, notify, mmpc, c1, c2, rmsg, rtarget, net, rdl, nread, sent>>

\* faulty variant of PingWrite: the error of the ping write is ignored
PingWriteIgnoringError(c) ==
    /\ hb[c] = "ping"
    /\ cmu' = [cmu EXCEPT ![c] = FALSE]
    /\ hb' = [hb EXCEPT ![c] = "wait"]
    /\ UNCHANGED <<clientsMu, mmu, pc, cid, clients, queue, notify, mmpc, c1, c2, rmsg, rtarget, net, rdl, nread, sent>>

\* the ping write and the unlock; on error the goroutine returns
PingWrite(c) ==
    /\ hb[c] = "ping"
    /\ cmu' = [cmu EXCEPT ![c] = FALSE]
    /\ hb' = [hb EXCEPT ![c] = IF WriteOk(c) THEN "wait" ELSE "done"]
    /\ UNCHANGED <<clientsMu, mmu, pc, cid, clients, queue, notify, mmpc, c1, c2, rmsg, rtarget, net, rdl, nread, sent>>

\* ------------------------------------------------------------ MatchMaker.Run
\* <-m.notify
MMWake ==
    /\ mmpc = "wait"
    /\ notify > 0
    /\ notify' = notify - 1
    /\ mmpc' = "check"
    /\ UNCHANGED <<clientsMu, mmu, pc, cid, clients, queue, c1, c2, cmu, rmsg, rtarget, hb, net, rdl, nread, sent>>

\* faulty variant of MMCheck: the two newest entries are popped
MMCheckNewest ==
    /\ mmpc = "check"
    /\ IF Len(queue) < 2
       THEN /\ mmpc' = "wait"
            /\ UNCHANGED <<queue, c1, c2>>
       ELSE /\ c1' = queue[Len(queue) - 1]
            /\ c2' = queue[Len(queue)]
            /\ queue' = SubSeq(queue, 1, Len(queue) - 2)
            /\ mmpc' = "l1"
    /\ UNCHANGED <<clientsMu, mmu, pc, cid, clients, notify, cmu, rmsg, rtarget, hb, net, rdl, nread, sent>>

\* under m.mu: continue when fewer than two wait, else pop the two oldest
MMCheck ==
    /\ mmpc = "check"
    /\ IF Len(queue) < 2
       THEN /\ mmpc' = "wait"
            /\ UNCHANGED <<queue, c1, c2>>
       ELSE /\ c1' = queue[1]
            /\ c2' = queue[2]
            /\ queue' = SubSeq(queue, 3, Len(queue))
            /\ mmpc' = "l1"
    /\ UNCHANGED <<clientsMu, mmu, pc, cid, clients, notify, cmu, rmsg, rtarget, hb, net, rdl, nread, sent>>

\* c1.WriteJSON(match): lock
MMLock1 ==
    /\ mmpc = "l1"
    /\ CanLock(c1)
    /\ cmu' = [cmu EXCEPT ![c1] = TRUE]
    /\ mmpc' = "w1"
    /\ UNCHANGED <<clientsMu, mmu, pc, cid, clients, queue, notify, c1, c2, rmsg, rtarget, hb, net, rdl, nread, sent>>

\* c1.WriteJSON(match): write and unlock; err1 is only logged afterwards
MMWrite1 ==
    /\ mmpc = "w1"
    /\ sent' = [sent EXCEPT ![c1] = Append(@, Frame(MatchMsg(c1, c2), WriteOk(c1), "match", MM))]
    /\ cmu' = [cmu EXCEPT ![c1] = FALSE]
    /\ mmpc' = "l2"
    /\ UNCHANGED <<clientsMu, mmu, pc, cid, clients, queue, notify, c1, c2, rmsg, rtarget, hb, net, rdl, nread>>

\* c2.WriteJSON(match): lock
MMLock2 ==
    /\ mmpc = "l2"
    /\ CanLock(c2)
    /\ cmu' = [cmu EXCEPT ![c2] = TRUE]
    /\ mmpc' = "w2"
    /\ UNCHANGED <<clientsMu, mmu, pc, cid, clients, queue, notify, c1, c2, rmsg, rtarget, hb, net, rdl, nread, sent>>

\* c2.WriteJSON(match): write and unlock
MMWrite2 ==
    /\ mmpc = "w2"
    /\ sent' = [sent EXCEPT ![c2] = Append(@, Frame(MatchMsg(c2, c1), WriteOk(c2), "match", MM))]
    /\ cmu' = [cmu EXCEPT ![c2] = FALSE]
    /\ mmpc' = "recheck"
    /\ UNCHANGED <<clientsMu, mmu, pc, cid, clients, queue, notify, c1, c2, rmsg, rtarget, hb, net, rdl, nread>>

\* faulty variant of MMRecheck: the loop does not re-post its own wake
MMRecheckNoRepost ==
    /\ mmpc = "recheck"
    /\ mmpc' = "wait"
    /\ c1' = NoClient
    /\ c2' = NoClient
    /\ UNCHANGED <<clientsMu, mmu, pc, cid, clients, queue, notify, cmu, rmsg, rtarget, hb, net, rdl, nread, sent>>

\* faulty variant of MMRecheck: the first side is enrolled again when the
\* write to the second side failed
MMRecheckRequeue ==
    /\ mmpc = "recheck"
    /\ queue' = IF sent[c2][Len(sent[c2])].ok THEN queue ELSE Append(queue, c1)
    /\ notify' = IF Len(queue') >= 2 THEN PostWake(notify) ELSE notify
    /\ mmpc' = "wait"
    /\ c1' = NoClient
    /\ c2' = NoClient
    /\ UNCHANGED <<clientsMu, mmu, pc, cid, clients, cmu, rmsg, rtarget, hb, net, rdl, nread, sent>>

\* under m.mu: re-post a wake when at least two clients still wait
MMRecheck ==
    /\ mmpc = "recheck"
    /\ notify' = IF Len(queue) >= 2 THEN PostWake(notify) ELSE notify
    /\ mmpc' = "wait"
    /\ c1' = NoClient
    /\ c2' = NoClient
    /\ UNCHANGED <<clientsMu, mmu, pc, cid, clients, queue, cmu, rmsg, rtarget, hb, net, rdl, nread, sent>>

\* ----------------------------------------------------------- environment
\* the remote peer stops answering (crash, network loss): from now on writes
\* to it fail and nothing more arrives from it
NetDown(c) ==
    /\ pc[c] \in {"init", "initw", "add", "notify", "read", "rlock", "rwrite"}
    /\ net[c] = "up"
    /\ net' = [net EXCEPT ![c] = "down"]
    /\ UNCHANGED <<clientsMu, mmu, pc, cid, clients, queue, notify, mmpc, c1, c2, cmu, rmsg, rtarget, hb, rdl, nread, sent>>

\* time passes without a pong being processed
Tick(c) ==
    /\ pc[c] \in {"read", "rlock", "rwrite"}
    /\ rdl[c] > 0
    /\ rdl' = [rdl EXCEPT ![c] = @ - 1]
    /\ UNCHANGED <<clientsMu, mmu, pc, cid, clients, queue, notify, mmpc, c1, c2, cmu, rmsg, rtarget, hb, net, nread, sent>>

\* inbound frames a client can send
Inbound == [type : MsgTypes, payload : Payloads, to : IDs \cup {NoId},
            from : {NoId, "a", "b"}]

Handler(c) ==
    \/ \E q \in Queries(c), h \in Headers(c), up \in BOOLEAN : Connect(c, q, h, up)
    \/ InitLock(c)
    \/ InitWrite(c)
    \/ AddAppend(c)
    \/ AddNotify(c)
    \/ \E m \in Inbound : nread < RelayFrames /\ Recv(c, m)
    \/ RouteLock(c)
    \/ RouteWrite(c)
    \/ Pong(c)
    \/ ReadFail(c)
    \/ TdRemove(c)
    \/ TdClose(c)

Heartbeat(c) == PingLock(c) \/ PingWrite(c)

MatchMakerRun ==
    MMWake \/ MMCheck \/ MMLock1 \/ MMWrite1 \/ MMLock2 \/ MMWrite2 \/ MMRecheck

Env(c) == NetDown(c) \/ Tick(c)

\* a handler whose client sends no frame before it leaves
PoolHandler(c) ==
    \/ \E q \in Queries(c), h \in Headers(c), up \in BOOLEAN : Connect(c, q, h, up)
    \/ InitLock(c)
    \/ InitWrite(c)
    \/ AddAppend(c)
    \/ AddNotify(c)
    \/ ReadFail(c)
    \/ TdRemove(c)
    \/ TdClose(c)

\* the relay: every goroutine of the program, RelayConns connection requests
Next ==
    \/ \E c \in Relay : Handler(c)
    \/ \E c \in Watched : Heartbeat(c)
    \/ MatchMakerRun
    \/ \E c \in Watched : Env(c)

Spec == Init /\ [][Next]_vars

\* the waiting pool under churn: PoolConns clients that connect, wait and leave
NextPool ==
    \/ \E c \in Pool : PoolHandler(c)
    \/ MatchMakerRun

SpecPool == Init /\ [][NextPool]_vars

\* ReadJSON returns the timeout error once the read deadline has passed
DeadlineFail(c) == rdl[c] = 0 /\ ReadFail(c)

\* time passes, a read whose deadline has passed returns, and every goroutine
\* that can take a step of its own (a lock that is free, a write, the deferred
\* cleanup, the heartbeat, MatchMaker.Run) is eventually scheduled
FairSpec ==
    /\ Spec
    /\ WF_vars(MatchMakerRun)
    /\ \A c \in Watched : WF_vars(Tick(c)) /\ WF_vars(Heartbeat(c))
    /\ \A c \in Relay :
         /\ WF_vars(DeadlineFail(c))
         /\ WF_vars(InitLock(c)) /\ WF_vars(InitWrite(c))
         /\ WF_vars(AddAppend(c)) /\ WF_vars(AddNotify(c))
         /\ WF_vars(RouteLock(c)) /\ WF_vars(RouteWrite(c))
         /\ WF_vars(TdRemove(c)) /\ WF_vars(TdClose(c))

\* the registry under reconnection: PoolConns requests that connect, relay and
\* leave while MatchMaker.Run is not scheduled
NextReg ==
    \/ \E c \in Pool : Handler(c)
    \/ \E c \in Watched : Env(c)

SpecReg == Init /\ [][NextReg]_vars

\* a handler whose client carries its valid credential in the query
WakeHandler(c) ==
    \/ \E q \in OwnTokens(c) : Connect(c, q, NoHeader, TRUE)
    \/ InitLock(c)
    \/ InitWrite(c)
    \/ AddAppend(c)
    \/ AddNotify(c)

\* the read loop of a client fails and its deferred cleanup runs
Teardown(c) == ReadFail(c) \/ TdRemove(c) \/ TdClose(c)

\* the wake signal: MaxConns clients enroll next to MatchMaker.Run, and the
\* watched ones leave
NextWake ==
    \/ \E c \in Conns : WakeHandler(c)
    \/ \E c \in Watched : Teardown(c)
    \/ MatchMakerRun

SpecWake == Init /\ [][NextWake]_vars

\* MatchMaker.Run is scheduled whenever it can take a step, a write that was
\* started returns, and a handler that has appended its Client finishes Add
FairWake ==
    /\ SpecWake
    /\ WF_vars(MatchMakerRun)
    /\ \A c \in Conns : WF_vars(AddNotify(c))

\* frames whose payload is the number of frames the server had decoded when
\* the client's frame was read
ArrivalTag(n) == IF n = 0 THEN "m1" ELSE IF n = 1 THEN "m2" ELSE "m3"
Numbered == [type : {"offer"}, payload : {ArrivalTag(nread)}, to : IDs \cup {NoId},
             from : {NoId}]

\* a handler whose client carries its valid credential and sends numbered frames
OrderHandler(c) ==
    \/ WakeHandler(c)
    \/ \E m \in Numbered : Recv(c, m)
    \/ RouteLock(c)
    \/ RouteWrite(c)

\* the relay of several frames: PoolConns clients send numbered frames to
\* each other next to MatchMaker.Run, and the watched ones leave
NextOrder ==
    \/ \E c \in Pool : OrderHandler(c)
    \/ \E c \in Watched : Teardown(c)
    \/ MatchMakerRun

SpecOrder == Init /\ [][NextOrder]_vars

\* ===================================================== the two global locks
\* The same handler and loop with clientsMu and m.mu made explicit: Lock() is
\* a step of its own that waits until the mutex is free, and the statements
\* of the critical section together with Unlock() are the step after it.

\* handleConnections up to the creation of the Client (lines 449-495)
LConnect(c, query, header, upgraded) ==
    /\ pc[c] = "idle"
    /\ LET a == Authenticate(query, header)
       IN  IF a.status = 401
           THEN /\ pc' = [pc EXCEPT ![c] = "rejected"]
                /\ UNCHANGED cid
           ELSE IF ~upgraded
           THEN /\ pc' = [pc EXCEPT ![c] = "failed"]
                /\ UNCHANGED cid
           ELSE /\ pc' = [pc EXCEPT ![c] = "reglock"]
                /\ cid' = [cid EXCEPT ![c] = a.sub]
    /\ UNCHANGED <<clientsMu, mmu, clients, queue, notify, mmpc, c1, c2, cmu, rmsg, rtarget, hb, net, rdl, nread, sent>>

\* clientsMu.Lock() before the registration
LRegLock(c) ==
    /\ pc[c] = "reglock"
    /\ clientsMu = Unlocked
    /\ clientsMu' = c
    /\ pc' = [pc EXCEPT ![c] = "reg"]
    /\ UNCHANGED <<mmu, cid, clients, queue, notify, mmpc, c1, c2, cmu, rmsg, rtarget, hb, net, rdl, nread, sent>>

\* clients[clientID] = client; clientsMu.Unlock()
LRegister(c) ==
    /\ pc[c] = "reg"
    /\ clients' = [clients EXCEPT ![cid[c]] = c]
    /\ clientsMu' = Unlocked
    /\ pc' = [pc EXCEPT ![c] = "init"]
    /\ UNCHANGED <<mmu, cid, queue, notify, mmpc, c1, c2, cmu, rmsg, rtarget, hb, net, rdl, nread, sent>>

\* MatchMaker.Add: m.mu.Lock()
LAddLock(c) ==
    /\ pc[c] = "add"
    /\ mmu = Unlocked
    /\ mmu' = c
    /\ pc' = [pc EXCEPT ![c] = "addcs"]
    /\ UNCHANGED <<clientsMu, cid, clients, queue, notify, mmpc, c1, c2, cmu, rmsg, rtarget, hb, net, rdl, nread, sent>>

\* MatchMaker.Add: the append; m.mu.Unlock()
LAddAppend(c) ==
    /\ pc[c] = "addcs"
    /\ queue' = Enqueue(queue, c)
    /\ mmu' = Unlocked
    /\ pc' = [pc EXCEPT ![c] = "notify"]
    /\ UNCHANGED <<clientsMu, cid, clients, notify, mmpc, c1, c2, cmu, rmsg, rtarget, hb, net, rdl, nread, sent>>

\* ReadJSON succeeds: stamp From; handleMessage returns at once when To is empty
LRecv(c, msg) ==
    /\ pc[c] = "read"
    /\ net[c] = "up"
    /\ rdl[c] > 0
    /\ nread < MaxFrames
    /\ nread' = nread + 1
    /\ LET m == Stamp(msg, cid[c])
       IN  IF m.to = NoId
           THEN UNCHANGED <<pc, rmsg>>
           ELSE /\ pc' = [pc EXCEPT ![c] = "looklock"]
                /\ rmsg' = [rmsg EXCEPT ![c] = m]
    /\ UNCHANGED <<clientsMu, mmu, cid, clients, queue, notify, mmpc, c1, c2, cmu, rtarget, hb, net, rdl, sent>>

\* handleMessage: clientsMu.Lock()
LLookLock(c) ==
    /\ pc[c] = "looklock"
    /\ clientsMu = Unlocked
    /\ clientsMu' = c
    /\ pc' = [pc EXCEPT ![c] = "look"]
    /\ UNCHANGED <<mmu, cid, clients, queue, notify, mmpc, c1, c2, cmu, rmsg, rtarget, hb, net, rdl, nread, sent>>

\* handleMessage: target, ok := clients[msg.To]; clientsMu.Unlock(); if ok
LLookup(c) ==
    /\ pc[c] = "look"
    /\ clientsMu' = Unlocked
    /\ LET target == Lookup(rmsg[c].to)
       IN  IF ~Routable(rmsg[c].to, target)
           THEN /\ pc' = [pc EXCEPT ![c] = "read"]
                /\ rmsg' = [rmsg EXCEPT ![c] = NoMsg]
                /\ UNCHANGED rtarget
           ELSE /\ pc' = [pc EXCEPT ![c] = "rlock"]
                /\ rtarget' = [rtarget EXCEPT ![c] = target]
                /\ UNCHANGED rmsg
    /\ UNCHANGED <<mmu, cid, clients, queue, notify, mmpc, c1, c2, cmu, hb, net, rdl, nread, sent>>

\* ReadJSON returns an error: break, the deferred cleanup starts
LReadFail(c) ==
    /\ pc[c] = "read"
    /\ pc' = [pc EXCEPT ![c] = "dellock"]
    /\ UNCHANGED <<clientsMu, mmu, cid, clients, queue, notify, mmpc, c1, c2, cmu, rmsg, rtarget, hb, net, rdl, nread, sent>>

\* deferred cleanup: clientsMu.Lock()
LDelLock(c) ==
    /\ pc[c] = "dellock"
    /\ clientsMu = Unlocked
    /\ clientsMu' = c
    /\ pc' = [pc EXCEPT ![c] = "del"]
    /\ UNCHANGED <<mmu, cid, clients, queue, notify, mmpc, c1, c2, cmu, rmsg, rtarget, hb, net, rdl, nread, sent>>

\* faulty variant of LDelete: matchMaker.Remove is called before
\* clientsMu.Unlock()
LDeleteNested(c) ==
    /\ pc[c] = "del"
    /\ clients' = [clients EXCEPT ![cid[c]] = NoClient]
    /\ pc' = [pc EXCEPT ![c] = "remove"]
    /\ UNCHANGED <<clientsMu, mmu, cid, queue, notify, mmpc, c1, c2, cmu, rmsg, rtarget, hb, net, rdl, nread, sent>>

\* deferred cleanup: delete(clients, clientID); clientsMu.Unlock()
LDelete(c) ==
    /\ pc[c] = "del"
    /\ clients' = [clients EXCEPT ![cid[c]] = NoClient]
    /\ clientsMu' = Unlocked
    /\ pc' = [pc EXCEPT ![c] = "remove"]
    /\ UNCHANGED <<mmu, cid, queue, notify, mmpc, c1, c2, cmu, rmsg, rtarget, hb, net, rdl, nread, sent>>

\* MatchMaker.Remove: m.mu.Lock()
LRemLock(c) ==
    /\ pc[c] = "remove"
    /\ mmu = Unlocked
    /\ mmu' = c
    /\ pc' = [pc EXCEPT ![c] = "remcs"]
    /\ UNCHANGED <<clientsMu, cid, clients, queue, notify, mmpc, c1, c2, cmu, rmsg, rtarget, hb, net, rdl, nread, sent>>

\* MatchMaker.Remove: the scan and the deferred m.mu.Unlock()
LRemove(c) ==
    /\ pc[c] = "remcs"
    /\ queue' = RemoveFromQueue(queue, c)
    /\ mmu' = Unlocked
    /\ pc' = [pc EXCEPT ![c] = "close"]
    /\ UNCHANGED <<clientsMu, cid, clients, notify, mmpc, c1, c2, cmu, rmsg, rtarget, hb, net, rdl, nread, sent>>

\* MatchMaker.Run: m.mu.Lock() after the wake
LMMLock ==
    /\ mmpc = "check"
    /\ mmu = Unlocked
    /\ mmu' = MM
    /\ mmpc' = "checkcs"
    /\ UNCHANGED <<clientsMu, pc, cid, clients, queue, notify, c1, c2, cmu, rmsg, rtarget, hb, net, rdl, nread, sent>>

\* MatchMaker.Run: the size check and the pop; m.mu.Unlock() on both paths
LMMCheck ==
    /\ mmpc = "checkcs"
    /\ mmu' = Unlocked
    /\ IF Len(queue) < 2
       THEN /\ mmpc' = "wait"
            /\ UNCHANGED <<queue, c1, c2>>
       ELSE /\ c1' = queue[1]
            /\ c2' = queue[2]
            /\ queue' = SubSeq(queue, 3, Len(queue))
            /\ mmpc' = "l1"
    /\ UNCHANGED <<clientsMu, pc, cid, clients, notify, cmu, rmsg, rtarget, hb, net, rdl, nread, sent>>

\* MatchMaker.Run: m.mu.Lock() after the two writes
LMMRecheckLock ==
    /\ mmpc = "recheck"
    /\ mmu = Unlocked
    /\ mmu' = MM
    /\ mmpc' = "recheckcs"
    /\ UNCHANGED <<clientsMu, pc, cid, clients, queue, notify, c1, c2, cmu, rmsg, rtarget, hb, net, rdl, nread, sent>>

\* MatchMaker.Run: the non-blocking re-post; m.mu.Unlock()
LMMRecheck ==
    /\ mmpc = "recheckcs"
    /\ notify' = IF Len(queue) >= 2 THEN PostWake(notify) ELSE notify
    /\ mmu' = Unlocked
    /\ mmpc' = "wait"
    /\ c1' = NoClient
    /\ c2' = NoClient
    /\ UNCHANGED <<clientsMu, pc, cid, clients, queue, cmu, rmsg, rtarget, hb, net, rdl, nread, sent>>

LHandler(c) ==
    \/ \E q \in Queries(c), h \in Headers(c), up \in BOOLEAN : LConnect(c, q, h, up)
    \/ LRegLock(c)
    \/ LRegister(c)
    \/ InitLock(c)
    \/ InitWrite(c)
    \/ LAddLock(c)
    \/ LAddAppend(c)
    \/ AddNotify(c)
    \/ \E m \in Inbound : nread < RelayFrames /\ LRecv(c, m)
    \/ LLookLock(c)
    \/ LLookup(c)
    \/ RouteLock(c)
    \/ RouteWrite(c)
    \/ LReadFail(c)
    \/ LDelLock(c)
    \/ LDelete(c)
    \/ LRemLock(c)
    \/ LRemove(c)
    \/ TdClose(c)

LMatchMakerRun ==
    \/ MMWake
    \/ LMMLock
    \/ LMMCheck
    \/ MMLock1
    \/ MMWrite1
    \/ MMLock2
    \/ MMWrite2
    \/ LMMRecheckLock
    \/ LMMRecheck

NextLock ==
    \/ \E c \in Relay : LHandler(c)
    \/ LMatchMakerRun

SpecLock == Init /\ [][NextLock]_vars

\* ============================================== single-slot pending strategy
\* src/backend/main.go lines 129-358: the handler writes to the connection
\* directly, enrolls by sending the Client on the matchQueue channel (queue),
\* and matchingLoop keeps one pending Client (c1) next to the candidate it
\* has just received (c2).

\* faulty variant of isClientActive: any entry under c's identity will do
isClientActiveAnyEntry(c) == clients[cid[c]] # NoClient

\* isClientActive: the registry's entry for c's identity is this very Client
isClientActive(c) == clients[cid[c]] = c

\* client.Conn.WriteJSON(init)
BInitWrite(c) ==
    /\ pc[c] = "init"
    /\ sent' = [sent EXCEPT ![c] = Append(@, Frame(InitMsg(c), WriteOk(c), "init", c))]
    /\ pc' = [pc EXCEPT ![c] = "add"]
    /\ UNCHANGED <<clientsMu, mmu, cid, clients, queue, notify, mmpc, c1, c2, cmu, rmsg, rtarget, hb, net, rdl, nread>>

\* matchQueue <- client
BEnqueue(c) ==
    /\ pc[c] = "add"
    /\ queue' = Append(queue, c)
    /\ pc' = [pc EXCEPT ![c] = "read"]
    /\ UNCHANGED <<clientsMu, mmu, cid, clients, notify, mmpc, c1, c2, cmu, rmsg, rtarget, hb, net, rdl, nread, sent>>

\* ReadJSON returns an error: break, then delete(clients, clientID)
BReadFail(c) ==
    /\ pc[c] = "read"
    /\ clients' = [clients EXCEPT ![cid[c]] = NoClient]
    /\ pc' = [pc EXCEPT ![c] = "close"]
    /\ UNCHANGED <<clientsMu, mmu, cid, queue, notify, mmpc, c1, c2, cmu, rmsg, rtarget, hb, net, rdl, nread, sent>>

\* client := <-matchQueue
BPop ==
    /\ mmpc = "wait"
    /\ queue # <<>>
    /\ c2' = Head(queue)
    /\ queue' = Tail(queue)
    /\ mmpc' = "active"
    /\ UNCHANGED <<clientsMu, mmu, pc, cid, clients, notify, c1, cmu, rmsg, rtarget, hb, net, rdl, nread, sent>>

\* isClientActive(client), then the pending == nil test
BCheckClient ==
    /\ mmpc = "active"
    /\ IF ~isClientActive(c2)
       THEN /\ c2' = NoClient
            /\ mmpc' = "wait"
            /\ UNCHANGED c1
       ELSE IF c1 = NoClient
       THEN /\ c1' = c2
            /\ c2' = NoClient
            /\ mmpc' = "wait"
       ELSE /\ mmpc' = "pending"
            /\ UNCHANGED <<c1, c2>>
    /\ UNCHANGED <<clientsMu, mmu, pc, cid, clients, queue, notify, cmu, rmsg, rtarget, hb, net, rdl, nread, sent>>

\* isClientActive(pending), then the self-match test
BCheckPending ==
    /\ mmpc = "pending"
    /\ IF ~isClientActive(c1)
       THEN /\ c1' = c2
            /\ c2' = NoClient
            /\ mmpc' = "wait"
       ELSE IF cid[c1] = cid[c2]
       THEN /\ c2' = NoClient
            /\ mmpc' = "wait"
            /\ UNCHANGED c1
       ELSE /\ mmpc' = "bw1"
            /\ UNCHANGED <<c1, c2>>
    /\ UNCHANGED <<clientsMu, mmu, pc, cid, clients, queue, notify, cmu, rmsg, rtarget, hb, net, rdl, nread, sent>>

\* faulty variant of BWrite1: the second write is made whatever err1 is
BWrite1Independent ==
    /\ mmpc = "bw1"
    /\ sent' = [sent EXCEPT ![c1] = Append(@, Frame(MatchMsg(c1, c2), WriteOk(c1), "match", MM))]
    /\ mmpc' = "bw2"
    /\ UNCHANGED <<clientsMu, mmu, pc, cid, clients, queue, notify, c1, c2, cmu, rmsg, rtarget, hb, net, rdl, nread>>

\* err1 := c1.Conn.WriteJSON(match); on error the candidate becomes pending
BWrite1 ==
    /\ mmpc = "bw1"
    /\ sent' = [sent EXCEPT ![c1] = Append(@, Frame(MatchMsg(c1, c2), WriteOk(c1), "match", MM))]
    /\ IF ~WriteOk(c1)
       THEN /\ c1' = c2
            /\ c2' = NoClient
            /\ mmpc' = "wait"
       ELSE /\ mmpc' = "bw2"
            /\ UNCHANGED <<c1, c2>>
    /\ UNCHANGED <<clientsMu, mmu, pc, cid, clients, queue, notify, cmu, rmsg, rtarget, hb, net, rdl, nread>>

\* faulty variant of BWrite2: on err2 the pending Client is kept as pending
BWrite2Repend ==
    /\ mmpc = "bw2"
    /\ sent' = [sent EXCEPT ![c2] = Append(@, Frame(MatchMsg(c2, c1), WriteOk(c2), "match", MM))]
    /\ c1' = IF WriteOk(c2) THEN NoClient ELSE c1
    /\ c2' = NoClient
    /\ mmpc' = "wait"
    /\ UNCHANGED <<clientsMu, mmu, pc, cid, clients, queue, notify, cmu, rmsg, rtarget, hb, net, rdl, nread>>

\* err2 := c2.Conn.WriteJSON(match); pending = nil
BWrite2 ==
    /\ mmpc = "bw2"
    /\ sent' = [sent EXCEPT ![c2] = Append(@, Frame(MatchMsg(c2, c1), WriteOk(c2), "match", MM))]
    /\ c1' = NoClient
    /\ c2' = NoClient
    /\ mmpc' = "wait"
    /\ UNCHANGED <<clientsMu, mmu, pc, cid, clients, queue, notify, cmu, rmsg, rtarget, hb, net, rdl, nread>>

BHandler(c) ==
    \/ \E q \in Queries(c), h \in Headers(c), up \in BOOLEAN : Connect(c, q, h, up)
    \/ BInitWrite(c)
    \/ BEnqueue(c)
    \/ BReadFail(c)
    \/ TdClose(c)

matchingLoop == BPop \/ BCheckClient \/ BCheckPending \/ BWrite1 \/ BWrite2

NextB ==
    \/ \E c \in Pool : BHandler(c)
    \/ matchingLoop
    \/ \E c \in Watched : NetDown(c)

SpecB == Init /\ [][NextB]_vars

\* =================================================================== claims
Range(s) == {s[i] : i \in DOMAIN s}
IsMatch(f) == f.via = "match"
MatchFrames(c) == SelectSeq(sent[c], IsMatch)
AllFrames == UNION {Range(sent[c]) : c \in Conns}
\* the handler has appended its Client to the pool
Added(c) == pc[c] \in {"notify", "read", "rlock", "rwrite", "remove", "close", "closed"}
\* the read loop has exited
Gone(c) == pc[c] \in {"remove", "close", "closed"}

\* C1: every pairing MatchMaker.Run emits has two distinct identities: no match
\* frame carries as payload the identity of the client it is written to.
C1_NoSelfMatch ==
    \A c \in Conns : \A i \in DOMAIN sent[c] :
        sent[c][i].via = "match" => sent[c][i].payload # cid[c]

\* C2: every frame the server forwards carries as from the authenticated
\* identity of the connection it was read from, whatever the client wrote there.
C2_FromIsSender ==
    /\ \A c \in Conns : pc[c] \in {"rlock", "rwrite"} => rmsg[c].from = cid[c]
    /\ \A t \in Conns : \A i \in DOMAIN sent[t] :
           sent[t][i].via = "route" => sent[t][i].from = cid[sent[t][i].by]

\* a frame read from one connection has been written successfully to another
C2_Witness ==
    \E t \in Conns : \E i \in DOMAIN sent[t] :
        /\ sent[t][i].via = "route"
        /\ sent[t][i].ok
        /\ sent[t][i].by # t

\* C3: routing a frame whose to is registered performs exactly one write, to the
\* connection of the Client the registry holds at the lookup, and the frame
\* written has the type, payload and to of the frame read, with from replaced
\* by the sender's identity.
C3_RouteDelivers ==
    [][\A c \in Conns :
         /\ \A m \in Inbound :
              (nread' # nread /\ Recv(c, m) /\ m.to \in IDs /\ clients[m.to] # NoClient)
              => /\ pc'[c] = "rlock"
                 /\ rtarget'[c] = clients[m.to]
                 /\ rmsg'[c] = [type |-> m.type, payload |-> m.payload,
                                to |-> m.to, from |-> cid[c]]
                 /\ sent' = sent
         /\ (pc[c] = "rlock" /\ pc'[c] # "rlock")
              => pc'[c] = "rwrite" /\ sent' = sent /\ rmsg'[c] = rmsg[c]
                 /\ rtarget'[c] = rtarget[c]
         /\ (pc[c] = "rwrite" /\ pc'[c] # "rwrite")
              => /\ pc'[c] = "read"
                 /\ \E ok \in BOOLEAN :
                      sent' = [sent EXCEPT ![rtarget[c]] =
                                 Append(@, Frame(rmsg[c], ok, "route", c))]
      ]_vars

\* a forwarded frame sits in the trace of the connection registered for its to
C3_Witness ==
    \E t \in Conns : \E i \in DOMAIN sent[t] :
        /\ sent[t][i].via = "route"
        /\ sent[t][i].ok
        /\ clients[sent[t][i].to] = t
        /\ pc[sent[t][i].by] = "read"

\* C4: a frame whose to is empty or names no registered identity is dropped:
\* nothing is written to any connection, registry and pool stay as they are,
\* and the sender's read loop goes on.
C4_UnroutableDropped ==
    [][\A c \in Conns : \A m \in Inbound :
         (nread' # nread /\ Recv(c, m) /\ (m.to = NoId \/ clients[m.to] = NoClient))
         => /\ pc'[c] = "read"
            /\ sent' = sent
            /\ clients' = clients
            /\ queue' = queue
            /\ cmu' = cmu
            /\ rtarget' = rtarget
      ]_vars

\* a frame has been read and dropped after its sender's peer was torn down,
\* and the sender is back in its read loop
C4_Witness ==
    /\ nread > 0
    /\ \A c \in Conns : pc[c] \notin {"rlock", "rwrite"}
    /\ \A f \in AllFrames : f.via # "route"
    /\ \E c, d \in Conns :
         pc[c] = "read" /\ pc[d] = "closed" /\ clients[cid[d]] = NoClient

\* C5: the teardown of a Client whose registry entry has been overwritten by a
\* newer connection of the same identity leaves the newer entry in place.
C5_StaleTeardownKeepsNewer ==
    [][\A c \in Conns :
         (pc[c] = "read" /\ pc'[c] = "remove" /\ clients[cid[c]] # c)
         => clients'[cid[c]] = clients[cid[c]]
      ]_vars

\* C6: when exactly two Clients with distinct identities have been added and
\* the loop has come to rest, the pool is empty and each of the two has been
\* written exactly one match frame, carrying the other's identity; and every
\* pairing writes each side the other side's identity.
C6_TwoClientsOnePairing ==
    /\ \A x, y \in Conns :
         ( /\ x # y
           /\ cid[x] # cid[y]
           /\ pc[x] = "read"
           /\ pc[y] = "read"
           /\ \A z \in Conns \ {x, y} : ~Added(z)
           /\ mmpc = "wait"
           /\ notify = 0 )
         => /\ queue = <<>>
            /\ Len(MatchFrames(x)) = 1
            /\ MatchFrames(x)[1].payload = cid[y]
            /\ Len(MatchFrames(y)) = 1
            /\ MatchFrames(y)[1].payload = cid[x]
            /\ \A z \in Conns \ {x, y} : MatchFrames(z) = <<>>
    /\ mmpc \in {"l2", "w2", "recheck"}
         => /\ MatchFrames(c1) # <<>>
            /\ MatchFrames(c1)[Len(MatchFrames(c1))].payload = cid[c2]
    /\ mmpc = "recheck"
         => /\ MatchFrames(c2) # <<>>
            /\ MatchFrames(c2)[Len(MatchFrames(c2))].payload = cid[c1]

\* two Clients of distinct identities were added, paired and notified, and the
\* loop is at rest with an empty pool
C6_Witness ==
    \E x, y \in Conns :
        /\ x # y
        /\ cid[x] # cid[y]
        /\ pc[x] = "read"
        /\ pc[y] = "read"
        /\ \A z \in Conns \ {x, y} : ~Added(z)
        /\ mmpc = "wait"
        /\ notify = 0
        /\ queue = <<>>
        /\ MatchFrames(x) # <<>>
        /\ MatchFrames(y) # <<>>

\* C7: with three Clients of distinct identities added, once one of them has
\* disconnected no match frame is written to it and no match frame carrying its
\* identity is written to anyone.
C7_NoMatchWithDisconnected ==
    [][\A b \in Pool :
         ( /\ Gone(b)
           /\ \A d \in Pool : Added(d)
           /\ \A d, e \in Pool : d # e => cid[d] # cid[e] )
         => \A t \in Conns :
              (Len(sent'[t]) > Len(sent[t]) /\ sent'[t][Len(sent'[t])].via = "match")
              => (t # b /\ sent'[t][Len(sent'[t])].payload # cid[b])
      ]_vars

\* C8: a connection whose read deadline passed without a pong is torn down, and
\* once its teardown is complete that Client is neither the registry entry of
\* its identity nor in the waiting pool.
C8_TimedOutClientRemoved ==
    \A c \in Conns :
        (pc[c] = "closed" /\ rdl[c] = 0)
        => (clients[cid[c]] # c /\ c \notin Range(queue))

\* C9: a Client record occupies at most one position of the waiting pool.
C9_ClientOnceInPool ==
    \A i, j \in DOMAIN queue : queue[i] = queue[j] => i = j

\* the pool holds several Clients while another one has already left
C9_Witness ==
    /\ Len(queue) >= 2
    /\ \E c \in Conns : Gone(c)

\* the goroutines that are inside a write on connection c
Writers(c) ==
    {<<"init", h>> : h \in {h \in Conns : h = c /\ pc[h] = "initw"}}
    \cup {<<"route", h>> : h \in {h \in Conns : pc[h] = "rwrite" /\ rtarget[h] = c}}
    \cup (IF mmpc = "w1" /\ c1 = c THEN {<<"match", 1>>} ELSE {})
    \cup (IF mmpc = "w2" /\ c2 = c THEN {<<"match", 2>>} ELSE {})
    \cup (IF hb[c] = "ping" THEN {<<"ping", c>>} ELSE {})

Credential(q, h) == IF q # "" THEN q ELSE IF h.scheme = "Bearer" THEN h.cred ELSE ""
BadCredential(q, h) == Credential(q, h) \in {"", "tok-bad", "tok-nosub"}

\* C11: a request whose credential is missing, refused or without subject is
\* answered 401 and never upgraded: no Client is created, registry, pool and
\* connections stay as they are, no init is written, and the request is over.
C11_BadCredentialRejected ==
    [][\A c \in Conns :
         /\ (pc[c] = "idle" /\ pc'[c] # "idle")
              => \A q \in Queries(c), h \in Headers(c), up \in BOOLEAN :
                   (Connect(c, q, h, up) /\ BadCredential(q, h))
                   => /\ pc'[c] = "rejected"
                      /\ cid'[c] = NoId
                      /\ clients' = clients
                      /\ queue' = queue
                      /\ notify' = notify
                      /\ sent' = sent
         /\ pc[c] = "rejected"
              => /\ pc'[c] = "rejected"
                 /\ cid[c] = NoId
                 /\ sent[c] = <<>>
                 /\ c \notin Range(queue)
                 /\ \A i \in IDs : clients[i] # c
      ]_vars

\* a request was rejected while another connection is established and reading
C11_Witness ==
    \E c, d \in Conns : pc[c] = "rejected" /\ pc[d] = "read" /\ clients[cid[d]] = d

Last(s) == s[Len(s)]

\* C12 as stated: both match writes of a pairing are attempted whatever the
\* outcome of either: whenever the loop is back at rest, every Client that was
\* written a match frame (successfully or not) is named by a match frame
\* written to the Client its own frame names.
C12_BothSidesWritten ==
    mmpc = "wait" =>
        \A c \in Conns : \A i \in DOMAIN sent[c] :
            sent[c][i].via = "match"
            => \E d \in Conns : \E j \in DOMAIN sent[d] :
                   /\ cid[d] = sent[c][i].payload
                   /\ sent[d][j].via = "match"
                   /\ sent[d][j].payload = cid[c]

\* C12 (matchingLoop): the write to the pending side comes first; when it
\* fails the candidate is written nothing and becomes the pending Client; when
\* it succeeds the candidate is written its match whatever happened since, and
\* a failure of that second write takes nothing back from the first side.
C12_PendingFailureCancels ==
    [][/\ (mmpc = "bw1" /\ mmpc' # "bw1")
            => /\ Len(sent'[c1]) = Len(sent[c1]) + 1
               /\ Last(sent'[c1]).via = "match"
               /\ Last(sent'[c1]).payload = cid[c2]
               /\ \A d \in Conns \ {c1} : sent'[d] = sent[d]
               /\ IF Last(sent'[c1]).ok
                  THEN mmpc' = "bw2" /\ c1' = c1 /\ c2' = c2
                  ELSE mmpc' = "wait" /\ c1' = c2 /\ c2' = NoClient
       /\ (mmpc = "bw2" /\ mmpc' # "bw2")
            => /\ Len(sent'[c2]) = Len(sent[c2]) + 1
               /\ Last(sent'[c2]).via = "match"
               /\ Last(sent'[c2]).payload = cid[c1]
               /\ \A d \in Conns \ {c2} : sent'[d] = sent[d]
               /\ mmpc' = "wait" /\ c1' = NoClient /\ c2' = NoClient
      ]_vars

\* the match write to the pending side failed and the candidate, which was
\* written no match, is the pending Client now
C12_Witness ==
    \E c \in Conns :
        /\ sent[c] # <<>>
        /\ Last(sent[c]).via = "match"
        /\ ~Last(sent[c]).ok
        /\ mmpc = "wait"
        /\ c1 # NoClient
        /\ cid[c1] = Last(sent[c]).payload
        /\ MatchFrames(c1) = <<>>

\* the handler of n is between registration and the exit of its read loop
Live(n) == pc[n] \in {"init", "initw", "add", "notify", "read", "rlock", "rwrite"}
\* n is the Client the registry holds for its identity
Current(n) == cid[n] # NoId /\ clients[cid[n]] = n

\* C13: a newly registered Client replaces the registry entry of its identity
\* and, for as long as its session lasts, stays the Client every Route to that
\* identity finds: its entry changes only when a still newer connection
\* registers, and no forwarded frame is written to a Client that has been
\* superseded.
C13_RoutesReachNewestClient ==
    [][\A n \in Conns :
         /\ (pc[n] = "idle" /\ pc'[n] = "init") => clients'[cid'[n]] = n
         /\ (Current(n) /\ Live(n) /\ pc'[n] = pc[n])
              => \/ clients'[cid[n]] = n
                 \/ \E d \in Conns \ {n} : pc[d] = "idle" /\ clients'[cid[n]] = d
         /\ \A c \in Conns :
              (pc[c] = "rwrite" /\ pc'[c] # "rwrite" /\ rtarget[c] = n)
              => clients[cid[n]] \in {n, NoClient}
      ]_vars

IsInit(f) == f.via = "init"
InitFrames(c) == SelectSeq(sent[c], IsInit)

\* C14: a handler registers, then writes init with the authenticated identity,
\* then enrolls: before the init write the Client is registered but not in the
\* pool, a Client is enrolled or written a match only after its one init write,
\* and the init payload is the identity stamped as from on the frames forwarded
\* for that connection.
C14_RegisterInitEnroll ==
    \A c \in Conns :
        /\ pc[c] \in {"idle", "rejected", "failed"}
             => cid[c] = NoId /\ sent[c] = <<>> /\ c \notin Range(queue)
        /\ pc[c] \in {"init", "initw"}
             => cid[c] # NoId /\ InitFrames(c) = <<>> /\ MatchFrames(c) = <<>>
                /\ c \notin Range(queue)
        /\ pc[c] = "add" => c \notin Range(queue) /\ MatchFrames(c) = <<>>
        /\ (Added(c) \/ pc[c] = "add")
             => Len(InitFrames(c)) = 1 /\ InitFrames(c)[1].payload = cid[c]
        /\ \A i \in DOMAIN sent[c] :
             sent[c][i].via = "match"
             => \E j \in 1..(i - 1) : sent[c][j].via = "init"
        /\ \A t \in Conns : \A i \in DOMAIN sent[t] :
             (sent[t][i].via = "route" /\ sent[t][i].by = c)
             => Len(InitFrames(c)) = 1 /\ sent[t][i].from = InitFrames(c)[1].payload

\* a connection was written init and later match, and a frame it sent has been
\* forwarded to another connection
C14_Witness ==
    \E c, t \in Conns :
        /\ c # t
        /\ MatchFrames(c) # <<>>
        /\ InitFrames(c) # <<>>
        /\ \E i \in DOMAIN sent[t] : sent[t][i].via = "route" /\ sent[t][i].by = c

\* C15: when MatchMaker.Run is scheduled fairly and every Add returns, a pool of
\* two or more Clients does not stay: the loop pops a pair (or a teardown
\* shrinks the pool below two), however the Adds, the single buffered wake and
\* the loop's size checks interleave.
C15_PoolOfTwoGetsPaired ==
    (Len(queue) >= 2) ~> (mmpc = "l1" \/ Len(queue) < 2)

\* the wakes of several Adds were coalesced: the loop has paired two Clients,
\* two more wait, every Add has returned and no wake is buffered
C15_Witness ==
    /\ mmpc = "recheck"
    /\ Len(queue) >= 2
    /\ notify = 0
    /\ \A c \in Conns : pc[c] = "read"

\* C16: whatever MatchMaker.Run is doing with a Client while that Client's
\* teardown runs, once the teardown is complete the Client is neither the
\* registry entry of its identity nor in the waiting pool.
C16_TeardownLeavesNothing ==
    \A c \in Conns :
        pc[c] = "closed"
        => /\ clients[cid[c]] # c
           /\ c \notin Range(queue)

\* C17: a bye frame whose to names a registered identity is forwarded like any
\* other frame: the read loop hands it to handleMessage, which writes it, with
\* from set to the sender's identity, to the connection registered for to.
C17_ByeForwarded ==
    [][\A c \in Conns :
         /\ \A m \in Inbound :
              (nread' # nread /\ m.type = "bye" /\ m.to \in IDs
                 /\ clients[m.to] # NoClient /\ Recv(c, m))
              => /\ pc'[c] = "rlock"
                 /\ rtarget'[c] = clients[m.to]
                 /\ rmsg'[c].type = "bye"
                 /\ rmsg'[c].to = m.to
                 /\ rmsg'[c].from = cid[c]
         /\ (pc[c] = "rwrite" /\ pc'[c] # "rwrite" /\ rmsg[c].type = "bye")
              => /\ Len(sent'[rtarget[c]]) = Len(sent[rtarget[c]]) + 1
                 /\ Last(sent'[rtarget[c]]).type = "bye"
                 /\ Last(sent'[rtarget[c]]).via = "route"
                 /\ Last(sent'[rtarget[c]]).from = cid[c]
      ]_vars

\* a client that was matched with a peer sent bye to it, and the peer's
\* connection was written the bye with the sender's identity as from
C17_Witness ==
    \E c, t \in Conns :
        /\ c # t
        /\ \E k \in DOMAIN sent[c] :
             sent[c][k].via = "match" /\ sent[c][k].ok /\ sent[c][k].payload = cid[t]
        /\ \E i \in DOMAIN sent[t] :
             /\ sent[t][i].via = "route"
             /\ sent[t][i].type = "bye"
             /\ sent[t][i].ok
             /\ sent[t][i].by = c
             /\ sent[t][i].from = cid[c]
             /\ sent[t][i].to = cid[t]

\* C18: the credential is the token query parameter whenever that is non-empty
\* and the Bearer header only otherwise: a request is accepted or rejected, and
\* gets its identity, by the query credential alone when there is one, whatever
\* the header says.
C18_QueryBeforeHeader ==
    [][\A c \in Conns :
         (pc[c] = "idle" /\ pc'[c] # "idle")
         => \A q \in Queries(c), h \in Headers(c), up \in BOOLEAN :
              Connect(c, q, h, up)
              => /\ q # "" =>
                      /\ pc'[c] = "rejected" <=> (~Validate(q).ok \/ Validate(q).sub = NoId)
                      /\ pc'[c] = "init" => cid'[c] = Validate(q).sub
                 /\ (q = "" /\ h.scheme = "Bearer") =>
                      /\ pc'[c] = "rejected" <=> (~Validate(h.cred).ok \/ Validate(h.cred).sub = NoId)
                      /\ pc'[c] = "init" => cid'[c] = Validate(h.cred).sub
                 /\ (q = "" /\ h.scheme # "Bearer") => pc'[c] = "rejected"
      ]_vars

\* both requests were authenticated and upgraded; request 2, whose query and
\* header may carry the tokens of a and of b, goes on as b
C18_Witness ==
    /\ pc[1] = "init" /\ cid[1] = "a"
    /\ pc[2] = "init" /\ cid[2] = "b"

\* C19 as stated: a bye frame is never handed to handleMessage and never
\* written to a connection.
C19_ByeNeverRouted ==
    /\ \A c \in Conns : pc[c] \in {"rlock", "rwrite"} => rmsg[c].type # "bye"
    /\ \A f \in AllFrames : f.via = "route" => f.type # "bye"

\* C19 (read loop): every decoded frame, bye included, is handed to
\* handleMessage; whether it is forwarded depends on its to and on the registry
\* alone, and a forwarded frame keeps its type.
C19_EveryTypeRouted ==
    [][\A c \in Conns : \A m \in Inbound :
         (nread' # nread /\ Recv(c, m))
         => /\ (pc'[c] = "rlock") <=> (m.to # NoId /\ clients[m.to] # NoClient)
            /\ pc'[c] = "rlock" => rmsg'[c].type = m.type
      ]_vars

\* handleMessage is writing a bye frame to the connection registered for its to
C19_Witness ==
    \E c \in Conns :
        /\ pc[c] = "rwrite"
        /\ rmsg[c].type = "bye"
        /\ rtarget[c] # c
        /\ clients[rmsg[c].to] = rtarget[c]

\* C20 as stated: a Remove that deletes an entry returns with a wake buffered.
C20_RemovePostsWake ==
    [][\A c \in Conns :
         (pc[c] = "remove" /\ pc'[c] = "close" /\ queue' # queue) => notify' = 1
      ]_vars

\* C20 (Add and Remove): Add returns with a wake buffered; Remove, whether or
\* not it deleted an entry, leaves the wake buffer as it found it.
C20_OnlyAddPostsWake ==
    [][\A c \in Conns :
         /\ (pc[c] = "add" /\ pc'[c] # "add")
              => pc'[c] = "notify" /\ queue' = Append(queue, c) /\ notify' = notify
         /\ (pc[c] = "notify" /\ pc'[c] # "notify")
              => notify' = 1 /\ queue' = queue
         /\ (pc[c] = "remove" /\ pc'[c] # "remove")
              => pc'[c] = "close" /\ notify' = notify
      ]_vars

\* a Remove has deleted the entry of a waiting Client (it was enrolled, never
\* popped, and is gone from the pool) and no wake is buffered
C20_Witness ==
    \E c \in Conns :
        /\ pc[c] = "close"
        /\ c \notin Range(queue)
        /\ MatchFrames(c) = <<>>
        /\ c1 # c /\ c2 # c
        /\ queue # <<>>
        /\ notify = 0
        /\ mmpc = "wait"

\* positions of the pool whose entry has the identity of c
SameId(q, c) == {i \in DOMAIN q : cid[q[i]] = cid[c]}
\* q without its position i
Without(q, i) == [j \in 1..(Len(q) - 1) |-> IF j < i THEN q[j] ELSE q[j + 1]]

\* C21: a Remove that finds no entry with the Client's identity leaves the pool
\* as it is; one that finds an entry deletes exactly one position, holding that
\* identity, and keeps the others in their order; and when the pool held at most
\* one entry of that identity a second Remove changes nothing more.
C21_RemoveOneKeepOrder ==
    [][\A c \in Conns :
         (pc[c] = "remove" /\ pc'[c] # "remove")
         => /\ SameId(queue, c) = {} => queue' = queue
            /\ SameId(queue, c) # {}
                 => \E i \in SameId(queue, c) : queue' = Without(queue, i)
            /\ Cardinality(SameId(queue, c)) <= 1
                 => /\ SameId(queue', c) = {}
                    /\ RemoveFromQueue(queue', c) = queue'
      ]_vars

\* a Remove has deleted the middle one of three entries and the other two are
\* still in their order
C21_Witness ==
    /\ pc[2] = "close"
    /\ cid[2] = "b"
    /\ queue = <<1, 3>>
    /\ MatchFrames(2) = <<>>

\* the handler of c is inside a write on some connection, or waits for a
\* connection's mutex
AtWrite(c) == pc[c] \in {"init", "initw", "rlock", "rwrite"}
\* the step that ends the critical section task h is in
ReleaseClientsMu(h) == LRegister(h) \/ LLookup(h) \/ LDelete(h)
ReleasePoolMu(h) == IF h = MM THEN LMMCheck \/ LMMRecheck ELSE LAddAppend(h) \/ LRemove(h)

\* C22: no goroutine is inside a clientsMu and an m.mu critical section at once,
\* a goroutine inside either neither writes to a connection nor waits for a
\* lock, and so whoever holds one of the two locks can always take the step
\* that releases it: handlers, teardowns and the loop never deadlock on them.
C22_LocksNeverNested ==
    /\ clientsMu \in Conns \cup {Unlocked}
    /\ mmu \in Conns \cup {MM, Unlocked}
    /\ clientsMu # Unlocked => mmu # clientsMu
    /\ \A c \in Conns :
         /\ clientsMu = c => pc[c] \in {"reg", "look", "del"} /\ ~AtWrite(c)
         /\ mmu = c => pc[c] \in {"addcs", "remcs"} /\ ~AtWrite(c)
         /\ pc[c] \in {"reg", "look", "del"} => clientsMu = c
         /\ pc[c] \in {"addcs", "remcs"} => mmu = c
    /\ mmu = MM <=> mmpc \in {"checkcs", "recheckcs"}
    /\ clientsMu # Unlocked => ENABLED ReleaseClientsMu(clientsMu)
    /\ mmu # Unlocked => ENABLED ReleasePoolMu(mmu)

\* both locks are taken, by two different handlers, while MatchMaker.Run waits
\* for m.mu
C22_Witness ==
    \E c, d \in Conns :
        /\ clientsMu = c
        /\ mmu = d
        /\ c # d
        /\ mmpc \in {"check", "recheck"}

\* the arrival number a numbered frame carries
Rank(p) == IF p = "m1" THEN 1 ELSE IF p = "m2" THEN 2 ELSE 3

\* C23: frames read from one connection are forwarded one at a time in the
\* order of their arrival: on every target the frames forwarded for one sender
\* appear in arrival order, and while a handler is forwarding a frame every
\* frame it forwarded before has already been written.
C23_SenderOrderKept ==
    /\ \A t \in Conns : \A i, j \in DOMAIN sent[t] :
         ( /\ i < j
           /\ sent[t][i].via = "route"
           /\ sent[t][j].via = "route"
           /\ sent[t][i].by = sent[t][j].by )
         => Rank(sent[t][i].payload) < Rank(sent[t][j].payload)
    /\ \A c \in Conns :
         pc[c] \in {"rlock", "rwrite"}
         => \A t \in Conns : \A i \in DOMAIN sent[t] :
              (sent[t][i].via = "route" /\ sent[t][i].by = c)
              => Rank(sent[t][i].payload) < Rank(rmsg[c].payload)

\* one sender's two frames were written to another connection, first the one
\* that arrived first
C23_Witness ==
    \E c, t \in Conns : \E i, j \in DOMAIN sent[t] :
        /\ c # t
        /\ i < j
        /\ sent[t][i].via = "route" /\ sent[t][i].by = c /\ sent[t][i].payload = "m1"
        /\ sent[t][j].via = "route" /\ sent[t][j].by = c /\ sent[t][j].payload = "m2"
        /\ sent[t][i].ok /\ sent[t][j].ok

\* frames of two different senders were written to one target in the reverse
\* of their arrival order
C23_CrossSenderReordered ==
    \E t \in Conns : \E i, j \in DOMAIN sent[t] :
        /\ i < j
        /\ sent[t][i].via = "route" /\ sent[t][j].via = "route"
        /\ sent[t][i].by # sent[t][j].by
        /\ sent[t][i].payload = "m2" /\ sent[t][j].payload = "m1"

\* C24: when the write of a forwarded frame fails (the target's peer is gone or
\* its connection is closed) the failure stays with the router: the sender is
\* written nothing, its handler is back in the read loop, and registry, pool
\* and wake buffer are as before.
C24_RouteFailureSwallowed ==
    [][\A c \in Conns :
         ( /\ pc[c] = "rwrite"
           /\ pc'[c] # "rwrite"
           /\ (net[rtarget[c]] = "down" \/ pc[rtarget[c]] = "closed") )
         => /\ pc'[c] = "read"
            /\ Len(sent'[rtarget[c]]) = Len(sent[rtarget[c]]) + 1
            /\ ~Last(sent'[rtarget[c]]).ok
            /\ \A d \in Conns \ {rtarget[c]} : sent'[d] = sent[d]
            /\ clients' = clients
            /\ queue' = queue
            /\ notify' = notify
            /\ \A d \in Conns \ {c} : pc'[d] = pc[d]
      ]_vars

\* the write of a sender's first frame failed on a closed connection, and the
\* sender has gone on to read and forward its next frame
C24_Witness ==
    \E c, t \in Conns : \E i \in DOMAIN sent[t] :
        /\ c # t
        /\ sent[t][i].via = "route"
        /\ sent[t][i].by = c
        /\ ~sent[t][i].ok
        /\ sent[t][i].payload = "m1"
        /\ pc[c] \in {"rlock", "rwrite"}
        /\ rmsg[c].payload = "m2"
        /\ sent[c] = InitFrames(c)

\* C25 as stated: whenever the loop is at rest, a match write that failed has a
\* surviving side that was written its own match and is not the pending Client.
C25_SurvivorSentAndOut ==
    mmpc = "wait" =>
        \A c \in Conns : \A i \in DOMAIN sent[c] :
            (sent[c][i].via = "match" /\ ~sent[c][i].ok)
            => \E d \in Conns \ {c1} : \E j \in DOMAIN sent[d] :
                   /\ cid[d] = sent[c][i].payload
                   /\ sent[d][j].via = "match"
                   /\ sent[d][j].payload = cid[c]

\* C25 (matchingLoop): a Client that was written a match, delivered or not, is
\* written nothing after it and is out of matchmaking: it is not on the
\* matchQueue, it is not the candidate, and it is the pending Client only
\* while the second write of its own pairing is outstanding. Hence the
\* survivor of a failed second write is not returned; the Client pending at
\* rest, which after a failed first write is the candidate of that pairing,
\* has been written no match.
C25_WrittenStaysOut ==
    \A c \in Conns :
        MatchFrames(c) # <<>>
        => /\ Len(MatchFrames(c)) = 1
           /\ Last(sent[c]).via = "match"
           /\ \A i \in DOMAIN queue : queue[i] # c
           /\ c2 # c
           /\ (c1 = c => mmpc = "bw2")

\* the second write of a pairing failed: the pending side holds a delivered
\* match naming the dead candidate, and the loop is at rest with nothing pending
C25_Witness ==
    \E c, d \in Conns :
        /\ c # d
        /\ sent[d] # <<>> /\ Last(sent[d]).via = "match" /\ ~Last(sent[d]).ok
        /\ Last(sent[d]).payload = cid[c]
        /\ sent[c] # <<>> /\ Last(sent[c]).via = "match" /\ Last(sent[c]).ok
        /\ Last(sent[c]).payload = cid[d]
        /\ mmpc = "wait"
        /\ c1 = NoClient
        /\ pc[c] = "read"

\* MatchMaker.Run (batch pop): a Client that was written a match, delivered or
\* not, is not in the pool again and is written no second match, whatever
\* became of the write to the other side
C25_BatchSurvivorOut ==
    \A c \in Conns :
        MatchFrames(c) # <<>>
        => /\ \A i \in DOMAIN queue : queue[i] # c
           /\ Len(MatchFrames(c)) = 1
           /\ (mmpc \in {"wait", "check"} => Last(sent[c]).via = "match")

\* C26: the pool is first-in first-out. Add puts a Client behind every entry
\* already waiting; a woken loop that finds two or more entries takes the head
\* as the first side and its successor as the second and leaves the entries
\* behind them in their order; one that finds fewer than two removes nothing,
\* writes nothing and goes back to waiting; and the match frames that follow
\* a pop go to the two popped Clients and to nobody else.
C26_PoolIsFifo ==
    [][/\ \A c \in Conns :
            (pc[c] = "add" /\ pc'[c] # "add") => queue' = Append(queue, c)
       /\ (mmpc = "check" /\ mmpc' # "check")
            => IF Len(queue) < 2
               THEN /\ queue' = queue
                    /\ sent' = sent
                    /\ mmpc' = "wait"
                    /\ c1' = NoClient /\ c2' = NoClient
               ELSE /\ c1' = queue[1]
                    /\ c2' = queue[2]
                    /\ Len(queue') = Len(queue) - 2
                    /\ \A i \in DOMAIN queue' : queue'[i] = queue[i + 2]
                    /\ sent' = sent
       /\ (mmpc \in {"w1", "w2"} /\ mmpc' # mmpc)
            => /\ c1' = c1 /\ c2' = c2
               /\ \A d \in Conns \ {IF mmpc = "w1" THEN c1 ELSE c2} : sent'[d] = sent[d]
               /\ Last(sent'[IF mmpc = "w1" THEN c1 ELSE c2]).via = "match"
      ]_vars

\* four Clients were appended in some order, the loop has popped the two
\* oldest and two are left behind
C26_Witness ==
    /\ mmpc = "l1"
    /\ Len(queue) = 2
    /\ c1 # c2
    /\ {c1, c2} \cup Range(queue) = Conns

\* C27: matchingLoop has one pending slot (c1) beside the candidate it has
\* just received (c2). A candidate that is not the registry's entry for its
\* identity is dropped and the slot is left alone; a candidate reaches the
\* pending test only when it was found current; a pending Client found stale
\* there is replaced by the candidate and nothing is written; the loop goes on
\* to write only when the pending Client is current at that test and the two
\* identities differ; and a match frame is written only by those two writes,
\* to the pending Client or to the candidate.
C27_PendingSlotRules ==
    [][/\ (mmpc = "active" /\ mmpc' # "active" /\ clients[cid[c2]] # c2)
            => /\ mmpc' = "wait"
               /\ c1' = c1
               /\ c2' = NoClient
               /\ sent' = sent
       /\ (mmpc' = "pending" /\ mmpc # "pending")
            => /\ mmpc = "active"
               /\ clients[cid[c2]] = c2
               /\ c1 # NoClient
               /\ c1' = c1 /\ c2' = c2
       /\ (mmpc = "pending" /\ mmpc' # "pending" /\ clients[cid[c1]] # c1)
            => /\ mmpc' = "wait"
               /\ c1' = c2
               /\ c2' = NoClient
               /\ sent' = sent
       /\ (mmpc' = "bw1" /\ mmpc # "bw1")
            => /\ mmpc = "pending"
               /\ clients[cid[c1]] = c1
               /\ cid[c1] # cid[c2]
               /\ c1' = c1 /\ c2' = c2
       /\ \A c \in Conns :
            (Len(sent'[c]) > Len(sent[c]) /\ Last(sent'[c]).via = "match")
            => \/ mmpc = "bw1" /\ c = c1 /\ Last(sent'[c]).payload = cid[c2]
               \/ mmpc = "bw2" /\ c = c2 /\ Last(sent'[c]).payload = cid[c1]
       /\ (mmpc = "pending" /\ mmpc' = "pending") => (c1' = c1 /\ c2' = c2)
      ]_vars

\* a current candidate stands at the pending test while the pending Client has
\* left and is no longer the registry's entry for its identity
C27_Witness ==
    /\ mmpc = "pending"
    /\ clients[cid[c1]] # c1
    /\ clients[cid[c2]] = c2
    /\ pc[c1] \in {"close", "closed"}

\* C28: a read that returns an error (among them a frame that does not decode
\* or is larger than the read limit) ends that handler's read loop and nothing
\* else. The exit deletes the registry entry under the handler's identity and
\* writes and routes nothing; the cleanup then takes one entry of that identity
\* out of the pool, if there is one, and closes the connection, in that order;
\* and none of these steps moves any other connection's handler.
C28_ReadErrorEndsOwnSession ==
    [][\A c \in Conns :
         /\ (pc[c] = "read" /\ pc'[c] \notin {"read", "rlock"})
              => /\ pc'[c] = "remove"
                 /\ clients' = [clients EXCEPT ![cid[c]] = NoClient]
                 /\ sent' = sent
                 /\ queue' = queue
                 /\ rmsg' = rmsg /\ rtarget' = rtarget
         /\ (pc[c] = "remove" /\ pc'[c] # "remove")
              => /\ pc'[c] = "close"
                 /\ Len(queue') = Len(queue) - (IF \E i \in DOMAIN queue : cid[queue[i]] = cid[c] THEN 1 ELSE 0)
                 /\ clients' = clients
                 /\ sent' = sent
         /\ (pc[c] = "close" /\ pc'[c] # "close")
              => /\ pc'[c] = "closed"
                 /\ clients' = clients /\ queue' = queue /\ sent' = sent
         /\ (Gone(c) /\ pc'[c] # pc[c])
              => \A d \in Conns \ {c} : pc'[d] = pc[d]
         /\ (~Gone(c) /\ Gone(c)')
              => pc[c] = "read" /\ \A d \in Conns \ {c} : pc'[d] = pc[d]
      ]_vars

\* one connection's read failed and its teardown is complete, while another
\* connection, registered and within its read deadline, is still reading
C28_Witness ==
    \E c, d \in Conns :
        /\ pc[c] = "closed"
        /\ clients[cid[c]] = NoClient
        /\ pc[d] = "read"
        /\ net[d] = "up"
        /\ rdl[d] > 0
        /\ clients[cid[d]] = d

\* a write to c has returned an error: a frame of its write log failed or its
\* heartbeat has stopped on a failed ping
WriteFailed(c) ==
    \/ \E i \in DOMAIN sent[c] : ~sent[c][i].ok
    \/ hb[c] = "done"

\* c is neither the registry's entry for its identity nor in the pool
CleanedUp(c) ==
    /\ cid[c] # NoId => clients[cid[c]] # c
    /\ \A i \in DOMAIN queue : queue[i] # c

\* C29: once a write to a Client has failed, that Client's registry entry and
\* its pool entry are eventually gone.
C29_FailedWriteLeadsToCleanup ==
    \A c \in Relay : WriteFailed(c) ~> CleanedUp(c)

\* the same, when no two connections authenticate as the same identity
C29_DistinctFailedWriteLeadsToCleanup ==
    \A c \in Relay :
        (WriteFailed(c) /\ \A d \in Relay \ {c} : cid[d] # cid[c])
        ~> (CleanedUp(c) \/ \E d \in Relay \ {c} : cid[d] = cid[c])

\* C30: every pool entry is the Client the registry holds under that entry's
\* identity.
C30_PoolOnlyRegistered ==
    \A i \in DOMAIN queue : clients[cid[queue[i]]] = queue[i]

\* what is left of it: a pool entry is a Client that was registered, and it is
\* the registry's entry unless an identity is shared or its own handler stands
\* between the registry delete and the pool Remove of its cleanup
C30_RegisteredUnlessLeaving ==
    \A i \in DOMAIN queue :
        /\ Added(queue[i])
        /\ \/ clients[cid[queue[i]]] = queue[i]
           \/ pc[queue[i]] = "remove"
           \/ \E d \in Conns \ {queue[i]} : cid[d] = cid[queue[i]]

\* a handler that can read a frame now
CanRead(c) == pc[c] = "read" /\ net[c] = "up" /\ rdl[c] > 0 /\ nread < RelayFrames

\* C31: the router keeps no state. No step of handleMessage changes the
\* registry, the pool or the wake buffer; the Client a frame is written to is
\* the registry's entry for the frame's to at the lookup; and a handler that
\* can read forwards a frame addressed to an identity exactly if the registry
\* holds an entry for it, whether or not sender and target were ever paired.
C31_RouterStateless ==
    [][\A c \in Conns :
         /\ (pc[c] = "read" /\ pc'[c] = "rlock")
              => /\ clients' = clients /\ queue' = queue /\ notify' = notify
                 /\ rmsg'[c].to \in IDs
                 /\ rtarget'[c] = clients[rmsg'[c].to]
                 /\ rtarget'[c] # NoClient
         /\ (pc[c] \in {"rlock", "rwrite"} /\ pc'[c] # pc[c])
              => clients' = clients /\ queue' = queue /\ notify' = notify
         /\ (pc[c] = "rwrite" /\ pc'[c] = "read")
              => /\ Len(sent'[rtarget[c]]) = Len(sent[rtarget[c]]) + 1
                 /\ Last(sent'[rtarget[c]]).to = rmsg[c].to
                 /\ Last(sent'[rtarget[c]]).via = "route"
         /\ \A t \in IDs :
              CanRead(c)
              => ( (clients[t] # NoClient)
                   <=> ENABLED (\E m \in Inbound :
                                   m.to = t /\ Recv(c, m) /\ pc'[c] = "rlock") )
      ]_vars

\* a forwarded frame was delivered from one Client to another while neither
\* had been sent a match
C31_Witness ==
    \E c, t \in Conns : \E i \in DOMAIN sent[t] :
        /\ c # t
        /\ sent[t][i].via = "route"
        /\ sent[t][i].by = c
        /\ sent[t][i].ok
        /\ MatchFrames(c) = <<>>
        /\ MatchFrames(t) = <<>>
        /\ pc[c] = "read"

\* C32: the wake buffer holds zero or one wake, and a post never waits: a
\* handler that stands at the send of Add can take it, and the loop that stands
\* at its re-post can take it, whatever the buffer holds and whatever the loop
\* is doing.
C32_WakeBufferedOnceNeverBlocks ==
    /\ notify \in {0, 1}
    /\ \A c \in Conns : pc[c] = "notify" => ENABLED AddNotify(c)
    /\ mmpc = "recheck" => ENABLED MMRecheck

\* all four handlers have returned from Add while the loop, woken at most
\* twice, is writing the first pairing's notifications: one wake is buffered,
\* so a post met a full buffer and returned
C32_Witness ==
    /\ \A c \in Conns : pc[c] = "read"
    /\ mmpc \in {"w1", "l2", "w2"}
    /\ \A c \in Conns : Len(MatchFrames(c)) = (IF mmpc # "w1" /\ c = c1 THEN 1 ELSE 0)
    /\ Len(queue) = 2
    /\ notify = 1

\* ============================================================ the client
\* src/frontend/lib/signaling.dart: _handleMessage run over the frames that
\* were delivered to connection c, in the order the server wrote them.

\* String.compareTo on identities: negative, zero or positive by code unit
IdRank(id) == CASE id = "a" -> 1 [] id = "b" -> 2 [] id = "c" -> 3 [] OTHER -> 0
compareTo(x, y) == IdRank(x) - IdRank(y)

\* _selfId when the i-th frame is handled: the payload of the last init
\* delivered before it, NoId while it is still null
RECURSIVE selfId(_, _)
selfId(c, i) ==
    IF i <= 1 THEN NoId
    ELSE IF sent[c][i - 1].ok /\ sent[c][i - 1].type = "init"
         THEN sent[c][i - 1].payload
         ELSE selfId(c, i - 1)

\* case 'match': _createOffer() is called for the i-th frame
createOffer(c, i) ==
    /\ sent[c][i].ok
    /\ sent[c][i].type = "match"
    /\ selfId(c, i) # NoId
    /\ compareTo(selfId(c, i), sent[c][i].payload) < 0

\* the client of c has created an offer
Offerer(c) == \E i \in DOMAIN sent[c] : createOffer(c, i)

\* both notifications of the pairing Run has just written were delivered
PairingDelivered ==
    /\ mmpc = "recheck"
    /\ Last(sent[c1]).via = "match" /\ Last(sent[c1]).ok
    /\ Last(sent[c2]).via = "match" /\ Last(sent[c2]).ok

\* C33: of the two clients of a pairing whose match notifications were both
\* delivered, exactly one creates the offer.
C33_ExactlyOneOfferer ==
    PairingDelivered => (Offerer(c1) /\ ~Offerer(c2)) \/ (Offerer(c2) /\ ~Offerer(c1))

\* the same for pairings of two different identities
C33_DistinctExactlyOneOfferer ==
    (PairingDelivered /\ cid[c1] # cid[c2])
    => /\ (Offerer(c1) /\ ~Offerer(c2)) \/ (Offerer(c2) /\ ~Offerer(c1))
       /\ Offerer(c1) <=> compareTo(cid[c1], cid[c2]) < 0

\* C34: no two pool entries have the same identity.
C34_OneEntryPerIdentity ==
    \A i, j \in DOMAIN queue : i # j => cid[queue[i]] # cid[queue[j]]

\* what holds instead: no Client is in the pool twice
C34_OneEntryPerClient ==
    \A i, j \in DOMAIN queue : i # j => queue[i] # queue[j]

\* C35: the cleanup of a handler leaves every other Client's pool membership
\* as it was: a step of c's teardown neither removes nor adds an entry of
\* another Client.
C35_TeardownTouchesOnlyOwnEntry ==
    [][\A c \in Conns :
         (Gone(c) /\ pc'[c] # pc[c])
         => \A d \in Conns \ {c} :
                (\E i \in DOMAIN queue' : queue'[i] = d)
                <=> (\E i \in DOMAIN queue : queue[i] = d)
      ]_vars

\* the same for a Client whose identity no other pool entry shares
C35_DistinctTeardownTouchesOnlyOwnEntry ==
    [][\A c \in Conns :
         ( /\ Gone(c) /\ pc'[c] # pc[c]
           /\ \A i \in DOMAIN queue : queue[i] # c => cid[queue[i]] # cid[c] )
         => /\ \A d \in Conns \ {c} :
                  (\E i \in DOMAIN queue' : queue'[i] = d)
                  <=> (\E i \in DOMAIN queue : queue[i] = d)
            /\ pc[c] = "remove" => \A i \in DOMAIN queue' : queue'[i] # c
      ]_vars

\* Run has popped c for a pairing, now or earlier
Selected(c) == c \in {c1, c2} \/ MatchFrames(c) # <<>>

\* C36: a Client whose handler has returned from Add and is in its read loop
\* is in the pool or has been selected for a pairing.
C36_LiveClientNotLost ==
    \A c \in Conns :
        pc[c] \in {"read", "rlock", "rwrite"}
        => (\E i \in DOMAIN queue : queue[i] = c) \/ Selected(c)

\* the same for a Client whose identity no other connection has
C36_DistinctLiveClientNotLost ==
    \A c \in Conns :
        ( /\ pc[c] \in {"read", "rlock", "rwrite"}
          /\ \A d \in Conns \ {c} : cid[d] # cid[c] )
        => (\E i \in DOMAIN queue : queue[i] = c) \/ Selected(c)

\* C37: a connection is written at most one match. Its Client is in the pool
\* at most once, and once Run has popped it, it is never in the pool again,
\* whatever is forwarded to it afterwards and whatever becomes of its peer.
C37_AtMostOneMatch ==
    \A c \in Conns :
        /\ Len(MatchFrames(c)) <= 1
        /\ \A i, j \in DOMAIN queue : (queue[i] = c /\ queue[j] = c) => i = j
        /\ Selected(c) => \A i \in DOMAIN queue : queue[i] # c

\* a paired Client has been forwarded its peer's bye, the peer's connection
\* is closed, and the Client is reading on, outside the pool
C37_Witness ==
    \E c, d \in Conns : \E i, j \in DOMAIN sent[c] :
        /\ c # d
        /\ i < j
        /\ sent[c][i].via = "match" /\ sent[c][i].ok
        /\ sent[c][j].via = "route" /\ sent[c][j].type = "bye" /\ sent[c][j].by = d
        /\ pc[d] = "closed"
        /\ pc[c] = "read"
        /\ mmpc = "wait"
        /\ queue = <<>>

\* C38 as stated: the first frame written to a connection is its init.
C38_InitFirst ==
    \A c \in Conns : sent[c] # <<>> => sent[c][1].via = "init"

\* C38 (what the handler's order gives): a match is written to a connection
\* only after that connection's init write, and whatever is written to it
\* before its init write was forwarded by another handler, which found the
\* Client in the registry between its registration and its init write.
C38_OnlyRoutedBeforeInit ==
    \A c \in Conns : \A i \in DOMAIN sent[c] :
        /\ sent[c][i].via = "match" => \E j \in 1..(i - 1) : sent[c][j].via = "init"
        /\ sent[c][i].via = "init"
             => \A j \in 1..(i - 1) :
                    sent[c][j].via = "route" /\ sent[c][j].by # c

\* a frame forwarded by another handler is the first frame of a connection
\* and its init is the second
C38_Witness ==
    \E c \in Conns :
        /\ Len(sent[c]) >= 2
        /\ sent[c][1].via = "route" /\ sent[c][1].by # c /\ sent[c][1].ok
        /\ sent[c][2].via = "init" /\ sent[c][2].ok

\* C39: once a connection whose heartbeat was started is closed, its heartbeat
\* goroutine eventually returns.
C39_HeartbeatEndsAfterClose ==
    \A c \in Watched : (pc[c] = "closed" /\ hb[c] # "off") ~> (hb[c] = "done")

\* the heartbeat has returned on a ping that failed because the connection
\* was closed: the peer was reachable throughout
C39_Witness ==
    \E c \in Watched : pc[c] = "closed" /\ net[c] = "up" /\ hb[c] = "done"

====
